---- MODULE Spec2Model ----
(***************************************************************************)
(* supply-solver: a keyed hypergraph (src/src/hypergraph.rs), a rose tree  *)
(* (src/src/tree.rs) and the recursive least-waste resolver                *)
(* (src/src/main.rs).                                                      *)
(*                                                                         *)
(* Indices are 0-based as in the code: the node (edge) stored at position  *)
(* p of the sequence `nodes` (`edges`) has index p - 1.                    *)
(***************************************************************************)
EXTENDS Integers, Sequences, FiniteSets, TLC

VARIABLES
    nodes,      \* IndexMap<N, Hypernode>: insertion-ordered [key, neighbors, neighbor_of]
    edges,      \* IndexSet<Hyperedge<E>>: insertion-ordered [src, dst, weight]
    call,       \* the last Hypergraph operation performed and what it returned
    aborted,    \* TRUE once an unwrap() on a missing key has panicked
    iteration,  \* per node index: the iteration order of its neighbor_of HashSet
    request,    \* Cli: the widget and the rate main was asked for
    stack,      \* the call stack of dep_tree
    outcome,    \* "idle" | "running" | "tree" | "panic"
    result,     \* the NTree returned by the outermost dep_tree
    selections  \* number of selections least_waste_heuristic has made

vars == <<nodes, edges, call, aborted, iteration, request, stack, outcome, result,
          selections>>

graphVars == <<nodes, edges, call, aborted>>
resolverVars == <<iteration, request, stack, outcome, result, selections>>

-----------------------------------------------------------------------------
(* Bounds of the model. *)

\* the Hypergraph operations stop adding edges at this size
MaxSize == 1

\* node keys (u32 in the tests of hypergraph.rs)
Keys == {1, 2}
\* edge payloads of the generic Hypergraph<N, E> (the tests use 15, 30, 45)
Weights == {15, 30}

-----------------------------------------------------------------------------
(* Helpers on sequences. *)

Range(s) == {s[i] : i \in 1..Len(s)}

SeqsUpTo(S, n) == UNION {[1..m -> S] : m \in 0..n}

\* the slices of keys handed to insert_edge: any order, duplicates allowed,
\* as long as there are keys
Slices == SeqsUpTo(Keys, Cardinality(Keys))

-----------------------------------------------------------------------------
(* Hypergraph<N, E> *)

NoIndex == -1

\* Hypernode::new
Hypernode(key) == [key |-> key, neighbors |-> {}, neighbor_of |-> {}]

\* IndexMap::get_index_of: the 0-based index of the key, NoIndex when absent
get_index_of(ns, key) ==
    IF \E p \in 1..Len(ns) : ns[p].key = key
    THEN (CHOOSE p \in 1..Len(ns) : ns[p].key = key) - 1
    ELSE NoIndex

\* Hyperedge's PartialEq/Hash: src and dst only, never the weight
HyperedgeEq(e, f) == e.src = f.src /\ e.dst = f.dst

\* IndexSet::get_index_of under HyperedgeEq
edge_index_of(es, e) ==
    IF \E p \in 1..Len(es) : HyperedgeEq(es[p], e)
    THEN (CHOOSE p \in 1..Len(es) : HyperedgeEq(es[p], e)) - 1
    ELSE NoIndex

\* insert_node as a get-or-create: a present key keeps its Hypernode
insert_node_keeping(ns, node) ==
    LET at == get_index_of(ns, node) IN
    IF at = NoIndex
    THEN [nodes |-> Append(ns, Hypernode(node)), index |-> Len(ns)]
    ELSE [nodes |-> ns, index |-> at]

\* IndexMap::insert_full(node, Hypernode::new()): a present key keeps its
\* place and key, and its value is replaced by the new, empty Hypernode
insert_node(ns, node) ==
    LET at == get_index_of(ns, node) IN
    IF at = NoIndex
    THEN [nodes |-> Append(ns, Hypernode(node)), index |-> Len(ns)]
    ELSE [nodes |-> [ns EXCEPT ![at + 1] = Hypernode(node)], index |-> at]

\* the unwrap()s of insert_edge panic when a key was never inserted
insert_edge_panics(ns, sources, destinations) ==
    \E k \in Range(sources) \cup Range(destinations) : get_index_of(ns, k) = NoIndex

\* insert_edge storing the new weight over an equal edge (IndexSet::replace_full)
insert_edge_replacing(ns, es, sources, destinations, weight) ==
    LET e == [src |-> {get_index_of(ns, k) : k \in Range(sources)},
              dst |-> {get_index_of(ns, k) : k \in Range(destinations)},
              weight |-> weight]
        at == edge_index_of(es, e)
        index == IF at = NoIndex THEN Len(es) ELSE at
        es2 == IF at = NoIndex THEN Append(es, e) ELSE [es EXCEPT ![at + 1] = e]
        ns2 == [p \in 1..Len(ns) |->
                  [ns[p] EXCEPT
                     !.neighbors = IF ns[p].key \in Range(sources)
                                   THEN @ \cup {index} ELSE @,
                     !.neighbor_of = IF ns[p].key \in Range(destinations)
                                     THEN @ \cup {index} ELSE @]]
    IN [nodes |-> ns2, edges |-> es2, index |-> index, existed |-> at # NoIndex,
        src |-> e.src, dst |-> e.dst]

\* insert_edge, for keys that are all present
insert_edge(ns, es, sources, destinations, weight) ==
    LET e == [src |-> {get_index_of(ns, k) : k \in Range(sources)},
              dst |-> {get_index_of(ns, k) : k \in Range(destinations)},
              weight |-> weight]
        at == edge_index_of(es, e)
        index == IF at = NoIndex THEN Len(es) ELSE at
        es2 == IF at = NoIndex THEN Append(es, e) ELSE es
        ns2 == [p \in 1..Len(ns) |->
                  [ns[p] EXCEPT
                     !.neighbors = IF ns[p].key \in Range(sources)
                                   THEN @ \cup {index} ELSE @,
                     !.neighbor_of = IF ns[p].key \in Range(destinations)
                                     THEN @ \cup {index} ELSE @]]
    IN [nodes |-> ns2, edges |-> es2, index |-> index, existed |-> at # NoIndex,
        src |-> e.src, dst |-> e.dst]

order(ns) == Len(ns)

size(es) == Len(es)

NodeNotFound == "Node does not exist"
EdgeNotFound == "Edge does not exist"

\* neighbors: the contents of the node's `neighbors` HashSet, or the error
neighbors(ns, key) ==
    IF get_index_of(ns, key) = NoIndex THEN NodeNotFound
    ELSE ns[get_index_of(ns, key) + 1].neighbors

\* neighbor_of: the contents of the node's `neighbor_of` HashSet, or the error
neighbor_of(ns, key) ==
    IF get_index_of(ns, key) = NoIndex THEN NodeNotFound
    ELSE ns[get_index_of(ns, key) + 1].neighbor_of

get_node(ns, n) == IF n \in 0..(Len(ns) - 1) THEN ns[n + 1].key ELSE NodeNotFound

get_weight(es, e) == IF e \in 0..(Len(es) - 1) THEN es[e + 1].weight ELSE EdgeNotFound

-----------------------------------------------------------------------------
(* The Hypergraph under arbitrary sequences of insert_node / insert_edge. *)

\* Option<(&Recipe, u64)>
None == [is_some |-> FALSE]

\* no tree (yet): the place of a tree that was never built
NoTree == [data |-> None, children |-> <<>>]

IdleResolver ==
    /\ iteration = <<>>
    /\ request = None
    /\ stack = <<>>
    /\ outcome = "idle"
    /\ result = NoTree
    /\ selections = 0

\* Hypergraph::new
Init ==
    /\ nodes = <<>>
    /\ edges = <<>>
    /\ call = [op |-> "new"]
    /\ aborted = FALSE
    /\ IdleResolver

InsertNode(key) ==
    /\ ~aborted
    /\ LET r == insert_node(nodes, key) IN
         /\ nodes' = r.nodes
         /\ call' = [op |-> "insert_node", key |-> key, ret |-> r.index,
                     existed |-> get_index_of(nodes, key) # NoIndex]
    /\ UNCHANGED <<edges, aborted, resolverVars>>

InsertEdge(sources, destinations, weight) ==
    /\ ~aborted
    /\ ~insert_edge_panics(nodes, sources, destinations)
    /\ LET r == insert_edge(nodes, edges, sources, destinations, weight) IN
         /\ r.existed \/ size(edges) < MaxSize
         /\ nodes' = r.nodes
         /\ edges' = r.edges
         /\ call' = [op |-> "insert_edge", src |-> r.src, dst |-> r.dst,
                     weight |-> weight, ret |-> r.index, existed |-> r.existed]
    /\ UNCHANGED <<aborted, resolverVars>>

InsertEdgePanic ==
    /\ ~aborted
    /\ \E sources \in Slices, destinations \in Slices :
          insert_edge_panics(nodes, sources, destinations)
    /\ aborted' = TRUE
    /\ call' = [op |-> "insert_edge_panic"]
    /\ UNCHANGED <<nodes, edges, resolverVars>>

Next ==
    \/ \E key \in Keys : InsertNode(key)
    \/ \E s \in Slices, d \in Slices, w \in Weights : InsertEdge(s, d, w)
    \/ InsertEdgePanic

Spec == Init /\ [][Next]_vars

-----------------------------------------------------------------------------
(* Claims about the Hypergraph, under Spec. *)

\* the edge indices whose stored sources (destinations) hold node index n
EdgesFrom(n) == {e \in 0..(size(edges) - 1) : n \in edges[e + 1].src}
EdgesInto(n) == {e \in 0..(size(edges) - 1) : n \in edges[e + 1].dst}

\* C1: after any sequence of insert_node and insert_edge calls, for every
\* inserted key k, neighbors(k) is exactly the set of edge indices whose
\* sources hold k's index and neighbor_of(k) exactly those whose destinations
\* hold it.
C1_AdjacencyExact ==
    \A p \in 1..Len(nodes) :
        /\ neighbors(nodes, nodes[p].key) = EdgesFrom(p - 1)
        /\ neighbor_of(nodes, nodes[p].key) = EdgesInto(p - 1)

\* the position in `es` of the stored edge with this (sources, destinations)
\* pair, 0 when there is none
StoredAt(es, src, dst) ==
    IF \E p \in 1..Len(es) : es[p].src = src /\ es[p].dst = dst
    THEN CHOOSE p \in 1..Len(es) : es[p].src = src /\ es[p].dst = dst
    ELSE 0

\* C2: an insert_edge whose (sources, destinations) pair equals that of a
\* stored edge, with a different payload, leaves size() unchanged, returns the
\* index issued by the first insertion, and get_weight at that index still
\* returns the first payload.
C2_DuplicateEdgeKeepsFirst ==
    [][(/\ call'.op = "insert_edge"
        /\ StoredAt(edges, call'.src, call'.dst) # 0
        /\ edges[StoredAt(edges, call'.src, call'.dst)].weight # call'.weight)
       => LET first == StoredAt(edges, call'.src, call'.dst) IN
          /\ size(edges') = size(edges)
          /\ call'.ret = first - 1
          /\ get_weight(edges', call'.ret) = edges[first].weight]_vars

\* a second insert_edge of a stored (sources, destinations) pair with another
\* payload has just returned
C2_Witness ==
    /\ call.op = "insert_edge"
    /\ call.existed
    /\ size(edges) = 1
    /\ call.ret = 0
    /\ get_weight(edges, call.ret) # call.weight

\* C10: insert_node of a present key returns the key's index and empties that
\* node's outgoing and incoming adjacency, leaving order(), size(), every
\* node's index and key, every other node's adjacency and every stored edge
\* unchanged; insert_node of a new key returns the previous order() and
\* changes nothing else.
C10_InsertNodeFrame ==
    [][(call'.op = "insert_node")
       => LET key == call'.key
              at == get_index_of(nodes, key)
          IN /\ edges' = edges
             /\ size(edges') = size(edges)
             /\ \A p \in 1..Len(nodes) :
                    /\ get_node(nodes', p - 1) = get_node(nodes, p - 1)
                    /\ (p - 1 # at) => nodes'[p] = nodes[p]
             /\ IF at # NoIndex
                THEN /\ call'.ret = at
                     /\ order(nodes') = order(nodes)
                     /\ neighbors(nodes', key) = {}
                     /\ neighbor_of(nodes', key) = {}
                ELSE /\ call'.ret = order(nodes)
                     /\ order(nodes') = order(nodes) + 1
                     /\ get_node(nodes', call'.ret) = key
                     /\ neighbors(nodes', key) = {}
                     /\ neighbor_of(nodes', key) = {}]_vars

\* insert_node of a present key has just discarded adjacency that a stored
\* edge still implies, while another node keeps its own
C10_Witness ==
    /\ call.op = "insert_node"
    /\ call.existed
    /\ EdgesFrom(call.ret) # {}
    /\ neighbors(nodes, call.key) = {}
    /\ \E p \in 1..Len(nodes) : p - 1 # call.ret /\ nodes[p].neighbor_of # {}

-----------------------------------------------------------------------------
(* Rational64 (num::Ratio<i64>), as the pairs <<numer, denom>> the crate    *)
(* keeps: reduced, with denom > 0.                                         *)

Abs(x) == IF x < 0 THEN -x ELSE x

RECURSIVE Gcd(_, _)
Gcd(a, b) == IF b = 0 THEN Abs(a) ELSE Gcd(b, Abs(a) % Abs(b))

\* Rust's integer / and %: the quotient truncates toward zero (b > 0 here)
TruncDiv(a, b) == IF a >= 0 THEN a \div b ELSE -((-a) \div b)
TruncRem(a, b) == a - b * TruncDiv(a, b)

\* Ratio::new: reduce, and carry the sign on the numerator
RatNew(n, d) ==
    LET g == Gcd(n, d)
        s == IF d < 0 THEN -1 ELSE 1
    IN <<s * (n \div g), s * (d \div g)>>

\* Rational64::from_integer
from_integer(n) == <<n, 1>>

\* Ratio's Div
RatDiv(a, b) == RatNew(a[1] * b[2], a[2] * b[1])

\* Ratio::fract: numer % denom over denom
fract(a) == RatNew(TruncRem(a[1], a[2]), a[2])

\* Ratio::ceil
ceil_truncating(a) == from_integer(TruncDiv(a[1], a[2]))
ceil(a) ==
    IF a[1] < 0
    THEN from_integer(TruncDiv(a[1], a[2]))
    ELSE from_integer(TruncDiv(a[1] + a[2] - 1, a[2]))

\* Ratio's Ord
RatCmp(a, b) ==
    IF a[1] * b[2] < b[1] * a[2] THEN "Less"
    ELSE IF a[1] * b[2] > b[1] * a[2] THEN "Greater"
    ELSE "Equal"

-----------------------------------------------------------------------------
(* Recipes and the cookbook (main.rs). *)

\* a recipe produces at most this many products
MaxProducts == 1
\* a recipe consumes at most this many reagents
MaxReagents == 2
\* Reagent::quantity ranges over 1..MaxQuantity
MaxQuantity == 2
\* Recipe::duration ranges over the whole seconds 1..MaxDuration
MaxDuration == 2
\* a cookbook holds at most this many recipes
MaxRecipes == 2
\* the requested rate ranges over the halves 0/2 .. MaxRateNum/2
MaxRateNum == 3
\* dep_tree is followed to this depth of recursion
MaxDepth == 3

\* Cookbook::widgets, inserted in this order
WidgetList == <<1, 2>>

\* struct Reagent
Reagents == [widget : Keys, quantity : 1..MaxQuantity]

Durations == {from_integer(d) : d \in 1..MaxDuration}

\* struct Recipe without its name and builder, which only print_tree reads
RecipeBodies ==
    [duration : Durations,
     products : UNION {[1..m -> Reagents] : m \in 1..MaxProducts},
     reagents : SeqsUpTo(Reagents, MaxReagents)]

\* Cookbook::recipes; a recipe's name is its place in the file
Named(c) ==
    [i \in 1..Len(c) |->
        [name |-> i, duration |-> c[i].duration, products |-> c[i].products,
         reagents |-> c[i].reagents]]

\* the widget main is asked for: the first of the cookbook (the cookbooks hold
\* every recipe over the widgets, so asking for another widget is the same run
\* with the widgets renamed)
Targets == {WidgetList[1]}

\* the rates main is asked for (Rational64::approximate_float of the argument)
Rates == {RatNew(n, 2) : n \in 0..MaxRateNum}

\* the widgets of a list of Reagent, in order
WidgetsOf(rs) == [i \in 1..Len(rs) |-> rs[i].widget]

\* Recipe::rate: the first product naming the widget, over the duration
rate(recipe, widget) ==
    LET i == CHOOSE i \in 1..Len(recipe.products) :
                 /\ recipe.products[i].widget = widget
                 /\ \A j \in 1..(i - 1) : recipe.products[j].widget # widget
    IN RatDiv(from_integer(recipe.products[i].quantity), recipe.duration)

\* main, lines 123-132: insert_node per widget, then insert_edge per recipe
RECURSIVE InsertNodes(_, _)
InsertNodes(ns, widgets) ==
    IF widgets = <<>> THEN ns
    ELSE InsertNodes(insert_node(ns, Head(widgets)).nodes, Tail(widgets))

RECURSIVE InsertRecipes(_, _)
InsertRecipes(g, recipes) ==
    IF recipes = <<>> THEN g
    ELSE LET r == Head(recipes) IN
         InsertRecipes(insert_edge(g.nodes, g.edges, WidgetsOf(r.reagents),
                                   WidgetsOf(r.products), r),
                       Tail(recipes))

Build(cookbook) ==
    InsertRecipes([nodes |-> InsertNodes(<<>>, WidgetList), edges |-> <<>>], cookbook)

-----------------------------------------------------------------------------
(* NTree<U> (tree.rs) *)

NTreeNew(data) == [data |-> data, children |-> <<>>]

\* an insert that keeps only the newest child
NTreeInsertOnly(tree, child) == [tree EXCEPT !.children = <<child>>]

NTreeInsert(tree, child) == [tree EXCEPT !.children = Append(@, child)]

NTreeChildren(tree) == tree.children

-----------------------------------------------------------------------------
(* The resolver (main.rs). *)

\* the waste of the stored recipe e for this widget and rate
Waste(es, widget, r, e) == fract(RatDiv(r, rate(get_weight(es, e), widget)))

\* a fold that keeps the later element on Less: the maximum
RECURSIVE max_by(_, _, _, _, _)
max_by(es, widget, r, x, rest) ==
    IF rest = <<>> THEN x
    ELSE LET y == Head(rest) IN
         max_by(es, widget, r,
                IF RatCmp(Waste(es, widget, r, x), Waste(es, widget, r, y)) = "Less"
                THEN y ELSE x,
                Tail(rest))

\* Iterator::min_by: fold from the first element, replacing the kept element x
\* by the next y only when compare(x, y) is Greater
RECURSIVE min_by(_, _, _, _, _)
min_by(es, widget, r, x, rest) ==
    IF rest = <<>> THEN x
    ELSE LET y == Head(rest) IN
         min_by(es, widget, r,
                IF RatCmp(Waste(es, widget, r, x), Waste(es, widget, r, y)) = "Greater"
                THEN y ELSE x,
                Tail(rest))

\* Hypergraph::neighbor_of as the Vec the resolver iterates: the node's
\* neighbor_of HashSet in its iteration order
neighbor_of_vec(ns, iter, widget) ==
    IF get_index_of(ns, widget) = NoIndex THEN NodeNotFound
    ELSE iter[get_index_of(ns, widget) + 1]

\* least_waste_heuristic: None, or the chosen edge and its multiplier (the
\* `as u64` of line 68 leaves the non-negative quotients of these rates as
\* they are)
least_waste_heuristic(ns, es, iter, widget, r) ==
    LET cands == neighbor_of_vec(ns, iter, widget) IN
    IF cands = <<>> THEN None
    ELSE LET best == min_by(es, widget, r, Head(cands), Tail(cands))
             frac == ceil(RatDiv(r, rate(get_weight(es, best), widget)))
         IN [is_some |-> TRUE, recipe |-> best, mult |-> TruncDiv(frac[1], frac[2])]

\* the rate one instance of the recipe consumes the reagent at
requested_rate_of_one(recipe, mult, reagent) ==
    RatDiv(from_integer(reagent.quantity), recipe.duration)

\* dep_tree, line 78: the rate requested of the reagent
requested_rate(recipe, mult, reagent) ==
    RatDiv(from_integer(reagent.quantity * mult), recipe.duration)

\* the permutations of a finite set, as sequences
Perms(S) == {s \in [1..Cardinality(S) -> S] : Range(s) = S}

\* a HashSet iterates in an order its hasher fixes: any order is possible
IterationOrders(ns) ==
    {it \in [1..Len(ns) -> UNION {Perms(ns[p].neighbor_of) : p \in 1..Len(ns)}] :
        \A p \in 1..Len(ns) : Range(it[p]) = ns[p].neighbor_of}

\* main up to line 132: the arguments are parsed and the graph of some
\* cookbook is built; nothing is resolved yet
InitResolve ==
    \E n \in 0..MaxRecipes : \E recipes \in [1..n -> RecipeBodies] :
        LET g == Build(Named(recipes)) IN
        /\ nodes = g.nodes
        /\ edges = g.edges
        /\ call = [op |-> "main"]
        /\ aborted = FALSE
        /\ iteration \in IterationOrders(g.nodes)
        /\ request \in [widget : Targets, rate : Rates]
        /\ stack = <<>>
        /\ outcome = "idle"
        /\ result = NoTree
        /\ selections = 0

\* dep_tree(widget, r), lines 75-76: select, unwrap, NTree::new
Enter(widget, r) ==
    LET chosen == least_waste_heuristic(nodes, edges, iteration, widget, r) IN
    IF ~chosen.is_some
    THEN /\ outcome' = "panic"
         /\ stack' = Append(stack, [widget |-> widget, rate |-> r, tree |-> NoTree])
         /\ UNCHANGED <<selections, result>>
    ELSE /\ outcome' = "running"
         /\ stack' = Append(stack, [widget |-> widget, rate |-> r,
                                    tree |-> NTreeNew([recipe |-> chosen.recipe,
                                                       mult |-> chosen.mult])])
         /\ selections' = selections + 1
         /\ UNCHANGED result

\* main, line 134: dep_tree(&graph, &args.widget, rate)
Resolve ==
    /\ outcome = "idle"
    /\ Enter(request.widget, request.rate)
    /\ UNCHANGED <<graphVars, iteration, request>>

\* the reagents of the recipe a frame has selected
FrameRecipe(f) == get_weight(edges, f.tree.data.recipe)

\* dep_tree, lines 77-79: the loop body up to the recursive call
Descend ==
    /\ outcome = "running"
    /\ Len(stack) < MaxDepth
    /\ LET f == stack[Len(stack)]
           i == Len(NTreeChildren(f.tree)) + 1
       IN /\ i <= Len(FrameRecipe(f).reagents)
          /\ Enter(FrameRecipe(f).reagents[i].widget,
                   requested_rate(FrameRecipe(f), f.tree.data.mult,
                                  FrameRecipe(f).reagents[i]))
    /\ UNCHANGED <<graphVars, iteration, request>>

\* dep_tree, line 81 after the loop: return the tree; the caller inserts it
Return ==
    /\ outcome = "running"
    /\ LET f == stack[Len(stack)] IN
       /\ Len(NTreeChildren(f.tree)) = Len(FrameRecipe(f).reagents)
       /\ IF Len(stack) = 1
          THEN /\ result' = f.tree
               /\ outcome' = "tree"
               /\ stack' = <<>>
          ELSE /\ stack' = [SubSeq(stack, 1, Len(stack) - 1) EXCEPT
                              ![Len(stack) - 1].tree = NTreeInsert(@, f.tree)]
               /\ UNCHANGED <<result, outcome>>
    /\ UNCHANGED <<graphVars, iteration, request, selections>>

NextResolve ==
    \/ Resolve
    \/ Descend
    \/ Return

SpecResolve == InitResolve /\ [][NextResolve]_vars

-----------------------------------------------------------------------------
(* Claims about the resolver, under SpecResolve.                           *)
(* The claims' arithmetic is stated on cross-multiplied integers, not with *)
(* the operators that model Rational64.                                    *)

\* the frames of dep_tree that have selected a recipe
Selected == {i \in 1..Len(stack) : stack[i].tree # NoTree}

\* the frame that asked for a widget nothing produces, if any
Unproduced == {i \in 1..Len(stack) : neighbor_of(nodes, stack[i].widget) = {}}

\* requested_rate / candidate_rate of stored edge e, as numerator and denominator
RatioNum(widget, r, e) == r[1] * rate(get_weight(edges, e), widget)[2]
RatioDen(widget, r, e) == r[2] * rate(get_weight(edges, e), widget)[1]

\* a <= b and a = b for fractions an/ad and bn/bd with positive denominators
FracLeq(an, ad, bn, bd) == an * bd <= bn * ad
FracEq(an, ad, bn, bd) == an * bd = bn * ad

\* fractional_part(ratio) = ratio - floor(ratio), over RatioDen
WasteNum(widget, r, e) == RatioNum(widget, r, e) % RatioDen(widget, r, e)

\* ceil(ratio) - ratio, over RatioDen: what ceil(ratio) instances over-produce
OverNum(widget, r, e) ==
    (RatioDen(widget, r, e) - WasteNum(widget, r, e)) % RatioDen(widget, r, e)

WasteLeq(widget, r, e, f) ==
    FracLeq(WasteNum(widget, r, e), RatioDen(widget, r, e),
            WasteNum(widget, r, f), RatioDen(widget, r, f))

\* the scenario of the least-waste law for frame f: candidates hi and lo of
\* rates r1 > r2, r2 < requested < 2 * r2, and hi wastes more than lo
LawScenario(f, hi, lo) ==
    LET r1 == rate(get_weight(edges, hi), f.widget)
        r2 == rate(get_weight(edges, lo), f.widget)
    IN /\ ~FracLeq(r1[1], r1[2], r2[1], r2[2])
       /\ ~FracLeq(f.rate[1], f.rate[2], r2[1], r2[2])
       /\ ~FracLeq(2 * r2[1], r2[2], f.rate[1], f.rate[2])
       /\ ~WasteLeq(f.widget, f.rate, hi, lo)

\* C3: when resolution is asked for a node whose neighbor_of set is empty, the
\* caller gets a NoProducer error as an explicit result: no abort, no tree.
C3_NoProducerIsReported ==
    (outcome # "idle" /\ Unproduced # {}) => outcome = "NoProducer"

\* C5: the recipe selected for a widget is an incoming edge of it whose waste,
\* fractional_part(requested_rate / candidate_rate), is the smallest among all
\* incoming edges; in the scenario of the least-waste law the r2 edge is taken.
C5_LeastWasteSelected ==
    \A i \in Selected :
        LET f == stack[i]
            sel == f.tree.data.recipe
            cands == neighbor_of(nodes, f.widget)
        IN /\ sel \in cands
           /\ \A e \in cands : WasteLeq(f.widget, f.rate, sel, e)
           /\ \A hi \in cands, lo \in cands :
                 (cands = {hi, lo} /\ LawScenario(f, hi, lo)) => sel = lo

\* the scenario of the law has been resolved, and the r2 edge is not the one
\* that comes first
C5_Witness ==
    \E i \in Selected :
        LET f == stack[i]
            cands == neighbor_of(nodes, f.widget)
        IN \E hi \in cands, lo \in cands :
              /\ cands = {hi, lo}
              /\ LawScenario(f, hi, lo)
              /\ f.tree.data.recipe = lo
              /\ iteration[get_index_of(nodes, f.widget) + 1] = <<hi, lo>>

\* C6: among the incoming edges that tie for the smallest waste, the one with
\* the lowest edge index is selected, whatever the iteration order of the
\* node's adjacency set.
C6_TieTakesLowestIndex ==
    \A i \in Selected :
        LET f == stack[i]
            cands == neighbor_of(nodes, f.widget)
            least == {e \in cands : \A g \in cands : WasteLeq(f.widget, f.rate, e, g)}
        IN \A e \in least : f.tree.data.recipe <= e

\* C7: for a non-negative requested rate and a candidate of positive rate the
\* multiplier is the least m >= 0 with m * candidate_rate >= requested_rate;
\* so with one producing edge of rate r and requested rate k * r it is k, with
\* waste 0, and it is 0 only when the requested rate is 0.
C7_MultiplierIsCeiling ==
    \A i \in Selected :
        LET f == stack[i]
            sel == f.tree.data.recipe
            m == f.tree.data.mult
            n == RatioNum(f.widget, f.rate, sel)
            d == RatioDen(f.widget, f.rate, sel)
        IN /\ m >= 0
           /\ m * d >= n
           /\ (m - 1) * d < n
           /\ (m = 0) => f.rate[1] = 0
           /\ (neighbor_of(nodes, f.widget) = {sel} /\ n % d = 0)
                 => (m = n \div d /\ WasteNum(f.widget, f.rate, sel) = 0)

\* a single producer was asked for twice its rate, and another selection had
\* to round a fractional ratio up
C7_Witness ==
    /\ \E i \in Selected :
          /\ neighbor_of(nodes, stack[i].widget) = {stack[i].tree.data.recipe}
          /\ RatioNum(stack[i].widget, stack[i].rate, stack[i].tree.data.recipe)
               = 2 * RatioDen(stack[i].widget, stack[i].rate, stack[i].tree.data.recipe)
          /\ stack[i].tree.data.mult = 2
    /\ \E i \in Selected :
          /\ WasteNum(stack[i].widget, stack[i].rate, stack[i].tree.data.recipe) # 0
          /\ stack[i].tree.data.mult = 2

\* C9: the waste used for selection is what ceil(ratio) instances over-produce,
\* ceil(ratio) - ratio, so the selected edge over-produces the least among all
\* incoming edges of the widget.
C9_WasteIsOverProduction ==
    \A i \in Selected :
        LET f == stack[i]
            sel == f.tree.data.recipe
            cands == neighbor_of(nodes, f.widget)
        IN /\ WasteNum(f.widget, f.rate, sel) = OverNum(f.widget, f.rate, sel)
           /\ \A e \in cands :
                 FracLeq(OverNum(f.widget, f.rate, sel), RatioDen(f.widget, f.rate, sel),
                         OverNum(f.widget, f.rate, e), RatioDen(f.widget, f.rate, e))

\* the rate q * m / d asked of a reagent of quantity q by m instances of a
\* recipe of duration d, as an unreduced fraction
AskedOf(recipe, m, reagent) ==
    <<reagent.quantity * m * recipe.duration[2], recipe.duration[1]>>

\* `data` is a resolution of (widget, r): an incoming edge of least waste with
\* the ceiling of the ratio as its multiplier
ResolvesTo(data, widget, r) ==
    /\ data.recipe \in neighbor_of(nodes, widget)
    /\ \A e \in neighbor_of(nodes, widget) : WasteLeq(widget, r, data.recipe, e)
    /\ data.mult * RatioDen(widget, r, data.recipe) >= RatioNum(widget, r, data.recipe)
    /\ (data.mult - 1) * RatioDen(widget, r, data.recipe) < RatioNum(widget, r, data.recipe)

\* the first `upto` children of the tree are, in order, complete resolutions
\* of the first `upto` declared reagents at the rates q_i * m / d
RECURSIVE ChildrenResolve(_, _)
ChildrenResolve(tree, upto) ==
    LET recipe == get_weight(edges, tree.data.recipe) IN
    /\ upto <= Len(recipe.reagents)
    /\ \A j \in 1..upto :
          LET child == NTreeChildren(tree)[j]
              reagent == recipe.reagents[j]
          IN /\ ResolvesTo(child.data, reagent.widget,
                           AskedOf(recipe, tree.data.mult, reagent))
             /\ Len(NTreeChildren(child))
                  = Len(get_weight(edges, child.data.recipe).reagents)
             /\ ChildrenResolve(child, Len(NTreeChildren(child)))

\* C8: a tree node built from a selected edge of duration d with multiplier m
\* has one child per declared reagent, in declared order, and the i-th child
\* is the resolution of the i-th reagent's widget, invoked with the requested
\* rate q_i * m / d exactly.
C8_ChildrenFollowReagents ==
    /\ \A i \in 2..Len(stack) :
          LET parent == stack[i - 1]
              recipe == FrameRecipe(parent)
              j == Len(NTreeChildren(parent.tree)) + 1
          IN /\ j <= Len(recipe.reagents)
             /\ stack[i].widget = recipe.reagents[j].widget
             /\ FracEq(stack[i].rate[1], stack[i].rate[2],
                       AskedOf(recipe, parent.tree.data.mult, recipe.reagents[j])[1],
                       AskedOf(recipe, parent.tree.data.mult, recipe.reagents[j])[2])
    /\ \A i \in Selected :
          ChildrenResolve(stack[i].tree, Len(NTreeChildren(stack[i].tree)))
    /\ (outcome = "tree") =>
          /\ ResolvesTo(result.data, request.widget, request.rate)
          /\ Len(NTreeChildren(result)) = Len(get_weight(edges, result.data.recipe).reagents)
          /\ ChildrenResolve(result, Len(NTreeChildren(result)))

\* a tree came back whose root runs two instances of a two-second recipe and
\* has two children, asked for different rates
C8_Witness ==
    /\ outcome = "tree"
    /\ result.data.mult = 2
    /\ get_weight(edges, result.data.recipe).duration = from_integer(2)
    /\ Len(NTreeChildren(result)) = 2
    /\ NTreeChildren(result)[1].data.mult # NTreeChildren(result)[2].data.mult

\* the widgets named by the reagents of stored edge e
ReagentWidgets(e) == Range(WidgetsOf(get_weight(edges, e).reagents))

\* the widgets some producer of a widget of S consumes
DirectNeeds(S) == UNION {ReagentWidgets(e) : e \in UNION {neighbor_of(nodes, w) : w \in S}}

RECURSIVE Closure(_)
Closure(S) == IF DirectNeeds(S) \subseteq S THEN S ELSE Closure(S \cup DirectNeeds(S))

\* the widgets and the edges reachable from the requested widget
ReachableWidgets == Closure({request.widget})
ReachableEdges == UNION {neighbor_of(nodes, w) : w \in ReachableWidgets}

\* the producer relation is acyclic along every path from the requested widget
Acyclic == \A w \in ReachableWidgets : w \notin Closure(DirectNeeds({w}))

RECURSIVE TreeSize(_)
TreeSize(tree) ==
    LET RECURSIVE Sum(_)
        Sum(j) == IF j = 0 THEN 0 ELSE TreeSize(NTreeChildren(tree)[j]) + Sum(j - 1)
    IN 1 + Sum(Len(NTreeChildren(tree)))

RECURSIVE TreeRecipes(_)
TreeRecipes(tree) ==
    {tree.data.recipe}
        \cup UNION {TreeRecipes(NTreeChildren(tree)[j]) : j \in 1..Len(NTreeChildren(tree))}

Terminated == outcome \in {"tree", "panic"}

Progress == [i \in 1..Len(stack) |-> Len(NTreeChildren(stack[i].tree))]

\* a comes before b in the order of a depth-first walk: a is a proper prefix
\* of b, or a is smaller where they first differ
Before(a, b) ==
    \/ Len(a) < Len(b) /\ \A i \in 1..Len(a) : a[i] = b[i]
    \/ \E i \in 1..Len(a) :
          /\ i <= Len(b)
          /\ a[i] < b[i]
          /\ \A j \in 1..(i - 1) : a[j] = b[j]

====
